---- MODULE Spec2Model ----
(***************************************************************************)
(* Model of demov1.1.py: a Flask HTTP API that remote-controls a VLC video *)
(* player owned by the Qt main thread.  HTTP handlers emit queued Qt       *)
(* signals; the main thread's event loop runs the connected slots, a       *)
(* 500 ms poll timer and the 100 ms single-shot timers armed by VLC's      *)
(* end-of-media callback.                                                  *)
(***************************************************************************)
EXTENDS Integers, Sequences, FiniteSets, TLC

\* ------------------------------------------------------------------ bounds
\* longest queue of posted (not yet delivered) signal events
MaxQueue == 2
\* most single-shot timers armed at once (further ones are not counted)
MaxPending == 1
\* video-id values tried by /changeVideo: -1 .. MaxId
MaxId == 2

\* ------------------------------------------------- module-level globals
\* os.listdir("videos/default")
DEFAULT == <<"d.mp4">>
\* os.listdir("videos"): holds the sub-directory "default" next to the videos
VIDEOS == <<"a.mp4", "default">>
\* os.path.abspath("videos"); a path is the sequence of its components
MAIN_PATH == <<"videos">>
\* f"{MAIN_PATH}/default/{DEFAULT[0]}"
DEFAULT_VIDEO == MAIN_PATH \o <<"default", DEFAULT[1]>>

\* Python's None
None == [type |-> "NoneType"]

\* the regular files of the model; each may be deleted and created again
Files == {DEFAULT_VIDEO, MAIN_PATH \o <<"a.mp4">>}
\* directories (they always exist: videos/default was listed at import)
Directories == {MAIN_PATH \o <<"default">>}
\* the video_path values a /play body may carry: an on-demand video, a
\* directory and a path that never exists
RequestPaths == {MAIN_PATH \o <<"a.mp4">>} \cup Directories \cup {<<"missing.mp4">>}

VARIABLES
    mainpc,          \* position of main(), or "imported" when the module is only imported
                     \* ("quitting": app.quit() was called, app.exec() has not returned yet)
    current_player,  \* the global current_player: None or the VideoPlayer object
    fs,              \* the regular files that exist now
    queue,           \* signal events posted to the main thread (Qt.QueuedConnection)
    pending,         \* armed QTimer.singleShot(100, handle_media_end) timers
    last             \* what happened last: the HTTP response sent (status, payload)
                     \* or the slot / timer callback the main thread ran (op, return value)

vars == <<mainpc, current_player, fs, queue, pending, last>>

\* ------------------------------------------------------------ filesystem
\* os.path.exists(p)
Exists(p, files) == p \in files \/ p \in Directories

\* ------------------------------------------------------------- libvlc
States == {"NothingSpecial", "Playing", "Paused", "Stopped", "Ended", "Error"}

\* mediaplayer.is_playing()
is_playing(st) == st = "Playing"

\* what opening the media at path p leads to: a regular file plays, a missing
\* one cannot be opened, a directory is no video (either outcome)
PlayOutcomes(p, files) ==
    IF p \in files THEN {"Playing"}
    ELSE IF p \in Directories THEN {"Playing", "Error"}
    ELSE {"Error"}

\* mediaplayer.play(): resumes a paused input, leaves a running, ended or
\* failed input alone, and opens the media when there is no input
mediaplayer_play(st, media, files) ==
    IF st = "Paused" THEN {"Playing"}
    ELSE IF st \in {"Playing", "Ended", "Error"} THEN {st}
    ELSE PlayOutcomes(media, files)

\* ------------------------------------------------------- VideoPlayer
\* VideoPlayer.__init__(video_path), after the existence check
NewVideoPlayer(video_path) ==
    [default_video    |-> video_path,
     video_path       |-> video_path,
     mediaplayer      |-> "NothingSpecial",
     video_frame      |-> "None",
     is_running       |-> FALSE,
     is_default_video |-> TRUE]

\* Each method is the set of its outcomes [self |-> object after, ret |-> return value].

\* mutant of play_in_main_thread: play() without a new media object
play_in_main_thread_same_media(self, files) ==
    { [self |-> [self EXCEPT !.mediaplayer = st], ret |-> TRUE] :
        st \in mediaplayer_play(self.mediaplayer, self.video_path, files) }

\* set_media(media_new(video_path)) resets the player, then play()
play_in_main_thread(self, files) ==
    { [self |-> [self EXCEPT !.mediaplayer = st], ret |-> TRUE] :
        st \in mediaplayer_play("NothingSpecial", self.video_path, files) }

\* mutant of change_video_in_main_thread: os.path.exists is not asked
change_video_in_main_thread_unchecked(self, new_path, files) ==
    LET s1 == [self EXCEPT !.video_path = new_path,
                           !.is_default_video = (new_path = self.default_video)]
        s2 == IF is_playing(s1.mediaplayer)
              THEN [s1 EXCEPT !.mediaplayer = "Stopped"]
              ELSE s1
    IN  { [self |-> r.self, ret |-> TRUE] : r \in play_in_main_thread(s2, files) }

\* mutant of change_video_in_main_thread: the flag is not recomputed
change_video_in_main_thread_stale_flag(self, new_path, files) ==
    IF Exists(new_path, files)
    THEN LET s1 == [self EXCEPT !.video_path = new_path]
             s2 == IF is_playing(s1.mediaplayer)
                   THEN [s1 EXCEPT !.mediaplayer = "Stopped"]
                   ELSE s1
         IN  { [self |-> r.self, ret |-> TRUE] : r \in play_in_main_thread(s2, files) }
    ELSE { [self |-> self, ret |-> FALSE] }

change_video_in_main_thread(self, new_path, files) ==
    IF Exists(new_path, files)
    THEN LET s1 == [self EXCEPT !.video_path = new_path,
                                !.is_default_video = (new_path = self.default_video)]
             s2 == IF is_playing(s1.mediaplayer)
                   THEN [s1 EXCEPT !.mediaplayer = "Stopped"]
                   ELSE s1
         IN  { [self |-> r.self, ret |-> TRUE] : r \in play_in_main_thread(s2, files) }
    ELSE { [self |-> self, ret |-> FALSE] }

\* mutant of handle_media_end: the flag is not consulted, the current video loops
handle_media_end_always_loops(self, files) == play_in_main_thread(self, files)

handle_media_end(self, files) ==
    IF ~self.is_default_video
    THEN { [self |-> r.self, ret |-> r.ret] :
             r \in change_video_in_main_thread([self EXCEPT !.is_default_video = TRUE],
                                               self.default_video, files) }
    ELSE play_in_main_thread(self, files)

\* mutant of pause_in_main_thread: a player that is not playing is left alone
pause_in_main_thread_only_pauses(self, files) ==
    IF is_playing(self.mediaplayer)
    THEN { [self |-> [self EXCEPT !.mediaplayer = "Paused"], ret |-> TRUE] }
    ELSE { [self |-> self, ret |-> FALSE] }

pause_in_main_thread(self, files) ==
    IF is_playing(self.mediaplayer)
    THEN { [self |-> [self EXCEPT !.mediaplayer = "Paused"], ret |-> TRUE] }
    ELSE { [self |-> [self EXCEPT !.mediaplayer = st], ret |-> FALSE] :
             st \in mediaplayer_play(self.mediaplayer, self.video_path, files) }

stop_in_main_thread(self) ==
    IF is_playing(self.mediaplayer)
    THEN { [self |-> [self EXCEPT !.mediaplayer = "Stopped"], ret |-> TRUE] }
    ELSE { [self |-> self, ret |-> FALSE] }

close_in_main_thread(self) ==
    LET s1 == IF is_playing(self.mediaplayer)
              THEN [self EXCEPT !.mediaplayer = "Stopped"]
              ELSE self
        s2 == IF s1.video_frame # "None"
              THEN [s1 EXCEPT !.video_frame = "closed"]
              ELSE s1
    IN  { [self |-> s2, ret |-> TRUE] }

\* --------------------------------------------------------------- signals
Signals == {"change_video_signal", "pause_signal", "play_signal",
            "stop_signal", "close_signal"}
NoArg == <<>>

\* setup_signals has run
Connected == mainpc = "running"

\* signal.emit(arg): one event per connected slot is posted to the main
\* thread; with no slot connected yet the emission reaches nobody
Emit(sig, arg) ==
    IF Connected
    THEN /\ Len(queue) < MaxQueue
         /\ queue' = Append(queue, [sig |-> sig, arg |-> arg])
    ELSE UNCHANGED queue

\* The methods "that can be called from any thread": each only emits its
\* signal and returns True.
\* mutant of change_video: the slot is called in the caller's thread
change_video_in_caller_thread(new_path) ==
    /\ \E r \in change_video_in_main_thread(current_player, new_path, fs) :
          current_player' = r.self
    /\ UNCHANGED queue

change_video(new_path) == Emit("change_video_signal", new_path) /\ UNCHANGED current_player
play == Emit("play_signal", NoArg) /\ UNCHANGED current_player
pause == Emit("pause_signal", NoArg) /\ UNCHANGED current_player
stop == Emit("stop_signal", NoArg) /\ UNCHANGED current_player
close == Emit("close_signal", NoArg) /\ UNCHANGED current_player

\* the slot connected to each signal
Slot(ev, self, files) ==
    CASE ev.sig = "change_video_signal" -> change_video_in_main_thread(self, ev.arg, files)
      [] ev.sig = "pause_signal"        -> pause_in_main_thread(self, files)
      [] ev.sig = "play_signal"         -> play_in_main_thread(self, files)
      [] ev.sig = "stop_signal"         -> stop_in_main_thread(self)
      [] ev.sig = "close_signal"        -> close_in_main_thread(self)

\* ------------------------------------------------------------ observation
Ran(op, ret) == last' = [by |-> "main", op |-> op, status |-> 0,
                         payload |-> IF ret THEN "True" ELSE "False"]
Reply(status, payload) ==
    last' = [by |-> "http", op |-> "response", status |-> status, payload |-> payload]

\* what handle_media_end prints: which of its two branches it takes
EndBranch(self) ==
    IF ~self.is_default_video THEN "handle_media_end: non-default finished"
    ELSE "handle_media_end: default finished"

\* ------------------------------------------------------------ main thread
\* main(): current_player = VideoPlayer(DEFAULT_VIDEO)
MainInit ==
    /\ mainpc = "start"
    /\ IF Exists(DEFAULT_VIDEO, fs)
       THEN /\ current_player' = NewVideoPlayer(DEFAULT_VIDEO)
            /\ mainpc' = "constructed"
       ELSE /\ mainpc' = "failed"        \* FileNotFoundError ends the process
            /\ UNCHANGED current_player
    /\ UNCHANGED <<fs, queue, pending, last>>

\* main(): flask_thread.start(), then time.sleep(1)
StartFlask ==
    /\ mainpc = "constructed"
    /\ mainpc' = "serving"
    /\ UNCHANGED <<current_player, fs, queue, pending, last>>

\* vlcApp(): QApplication, setup_signals, window, first play, then app.exec()
vlcApp ==
    /\ mainpc = "serving"
    /\ LET s1 == [current_player EXCEPT !.is_running = TRUE, !.video_frame = "shown"]
       IN  \E r \in play_in_main_thread(s1, fs) :
              /\ current_player' = r.self
              /\ Ran("vlcApp", r.ret)
    /\ mainpc' = "running"
    /\ UNCHANGED <<fs, queue, pending>>

\* mutant of Dispatch: the newest posted event is delivered first
Dispatch_newest_first(sig) ==
    /\ mainpc \in {"running", "quitting"}
    /\ queue # <<>>
    /\ queue[Len(queue)].sig = sig
    /\ \E r \in Slot(queue[Len(queue)], current_player, fs) :
          /\ current_player' = r.self
          /\ Ran(sig, r.ret)
    /\ queue' = SubSeq(queue, 1, Len(queue) - 1)
    /\ mainpc' = IF sig = "close_signal" THEN "quitting" ELSE mainpc
    /\ UNCHANGED <<fs, pending>>

\* the event loop delivers the oldest posted signal event to its slot.
\* app.quit() in the close slot only sets the loop's exit flag: the loop
\* looks at it between two rounds of event processing, and a round delivers
\* every event that was posted when it began, so events queued behind the
\* close event are still delivered when they belong to the same round
Dispatch(sig) ==
    /\ mainpc \in {"running", "quitting"}
    /\ queue # <<>>
    /\ Head(queue).sig = sig
    /\ \E r \in Slot(Head(queue), current_player, fs) :
          /\ current_player' = r.self
          /\ Ran(sig, r.ret)
    /\ queue' = Tail(queue)
    /\ mainpc' = IF sig = "close_signal" THEN "quitting" ELSE mainpc
    /\ UNCHANGED <<fs, pending>>

\* the round of event processing is over: app.exec() returns and
\* sys.exit(...) ends the process with its Flask thread (timers do not fire
\* any more once the exit flag is set)
sys_exit ==
    /\ mainpc = "quitting"
    /\ mainpc' = "exited"
    /\ UNCHANGED <<current_player, fs, queue, pending, last>>

\* poll_timer.timeout -> check_playback_status
check_playback_status ==
    /\ mainpc = "running"
    /\ IF current_player.mediaplayer = "Ended"
       THEN \E r \in handle_media_end(current_player, fs) :
               /\ current_player' = r.self
               /\ Ran(EndBranch(current_player), r.ret)
       ELSE UNCHANGED <<current_player, last>>
    /\ UNCHANGED <<mainpc, fs, queue, pending>>

\* an armed single-shot timer fires: handle_media_end
SingleShot ==
    /\ mainpc = "running"
    /\ pending > 0
    /\ pending' = pending - 1
    /\ \E r \in handle_media_end(current_player, fs) :
          /\ current_player' = r.self
          /\ Ran(EndBranch(current_player), r.ret)
    /\ UNCHANGED <<mainpc, fs, queue>>

\* ------------------------------------------------------------- VLC thread
\* the media plays to its end: MediaPlayerEndReached -> on_media_end arms a timer
on_media_end ==
    /\ mainpc = "running"
    /\ is_playing(current_player.mediaplayer)
    /\ current_player' = [current_player EXCEPT !.mediaplayer = "Ended"]
    /\ pending' = IF pending < MaxPending THEN pending + 1 ELSE pending
    /\ UNCHANGED <<mainpc, fs, queue, last>>

\* ------------------------------------------------------------ environment
\* the process is alive (files change afterwards too, unobserved)
Alive == mainpc \notin {"failed", "exited"}

RemoveFile(p) ==
    /\ Alive
    /\ p \in fs
    /\ fs' = fs \ {p}
    /\ UNCHANGED <<mainpc, current_player, queue, pending, last>>

CreateFile(p) ==
    /\ Alive
    /\ p \in Files \ fs
    /\ fs' = fs \cup {p}
    /\ UNCHANGED <<mainpc, current_player, queue, pending, last>>

\* ------------------------------------------------------------ HTTP thread
\* seq[i] in Python: indexes from 0, negative ones count from the end
PyValidIndex(seq, i) == 0 - Len(seq) <= i /\ i < Len(seq)
PyIndex(seq, i) == IF i >= 0 THEN seq[i + 1] ELSE seq[Len(seq) + i + 1]

\* request bodies: not JSON at all, the JSON value null, or a JSON object
\* that may carry "video-id" or "video_path"
Body(kind, keys, id, path) == [kind |-> kind, keys |-> keys, id |-> id, video_path |-> path]
Ids == (0 - 1)..MaxId
\* bodies without "video-id" / "video_path": no JSON, null, an empty object
PlainBodies == {Body("invalid", {}, 0, NoArg), Body("null", {}, 0, NoArg), Body("dict", {}, 0, NoArg)}
IdBodies == {Body("dict", {"video-id"}, i, NoArg) : i \in Ids}
PathBodies == {Body("dict", {"video_path"}, 0, p) : p \in RequestPaths}

\* the Flask thread accepts requests: app.run in start_flask, or the app
\* object served by whoever imported the module (a request handled in the
\* instant between app.quit() and the end of the process posts an event
\* that is never delivered; that instant is left out)
Serving == mainpc \in {"imported", "serving", "running"}

\* a handler that returns without calling the player
Refuse(status, payload) == Reply(status, payload) /\ UNCHANGED <<queue, current_player>>

resume ==
    IF current_player = None
    THEN Refuse(500, "error")
    ELSE play /\ Reply(200, "success")

changeVideo(body) ==
    IF body.kind # "dict"
    THEN Refuse(400, "error")        \* get_json or data.get raised inside the try
    ELSE IF current_player # None
    THEN IF "video-id" \in body.keys /\ PyValidIndex(VIDEOS, body.id)
         THEN /\ change_video(MAIN_PATH \o <<PyIndex(VIDEOS, body.id)>>)
              /\ Reply(200, "success")
         ELSE \* VIDEOS[id] raises IndexError / TypeError: Flask answers 500
              Refuse(500, "exception")
    ELSE Refuse(500, "error")

\* mutant of play_video: the existence check is left out
play_video_without_exists_check(body) ==
    IF current_player = None
    THEN Refuse(500, "error")
    ELSE IF body.kind = "null"
    THEN Refuse(500, "exception")
    ELSE IF body.kind = "dict" /\ "video_path" \in body.keys
    THEN change_video(body.video_path) /\ Reply(200, "success")
    ELSE play /\ Reply(200, "success")

play_video(body) ==
    IF current_player = None
    THEN Refuse(500, "error")
    ELSE IF body.kind = "null"
    THEN \* 'video_path' in None raises TypeError: Flask answers 500
         Refuse(500, "exception")
    ELSE IF body.kind = "dict" /\ "video_path" \in body.keys
    THEN IF ~Exists(body.video_path, fs)
         THEN Refuse(404, "error")
         ELSE change_video(body.video_path) /\ Reply(200, "success")
    ELSE play /\ Reply(200, "success")

pause_video ==
    IF current_player # None
    THEN pause /\ Reply(200, "success")
    ELSE Refuse(500, "error")

stop_video ==
    IF current_player # None
    THEN stop /\ Reply(200, "success")
    ELSE Refuse(500, "error")

close_player ==
    IF current_player # None
    THEN close /\ Reply(200, "success")
    ELSE Refuse(500, "error")

\* mutant of test_endpoint: the player is looked at first
test_endpoint_needs_player ==
    IF current_player = None
    THEN Refuse(500, "error")
    ELSE Refuse(200, "running")

test_endpoint == Refuse(200, "running")

ControlRoutes == {"resume", "changeVideo", "play", "pause", "stop", "close"}
Routes == ControlRoutes \cup {"test"}
\* the bodies tried on each route (the other routes never read the body)
BodiesOf(route) ==
    IF route = "changeVideo" THEN PlainBodies \cup IdBodies
    ELSE IF route = "play" THEN PlainBodies \cup PathBodies
    ELSE {Body("invalid", {}, 0, NoArg)}

Handler(route, body) ==
    CASE route = "resume"      -> resume
      [] route = "changeVideo" -> changeVideo(body)
      [] route = "play"        -> play_video(body)
      [] route = "pause"       -> pause_video
      [] route = "stop"        -> stop_video
      [] route = "close"       -> close_player
      [] route = "test"        -> test_endpoint

\* one HTTP request handled by the Flask thread
Request(route, body) ==
    /\ Serving
    /\ Handler(route, body)
    /\ UNCHANGED <<mainpc, fs, pending>>

\* ---------------------------------------------------------- specification
Init ==
    /\ mainpc \in {"start", "imported"}
    /\ current_player = None
    /\ fs = Files
    /\ queue = <<>>
    /\ pending = 0
    /\ last = [by |-> "none", op |-> "none", status |-> 0, payload |-> "none"]

Next ==
    \/ MainInit
    \/ StartFlask
    \/ vlcApp
    \/ \E sig \in Signals : Dispatch(sig)
    \/ sys_exit
    \/ check_playback_status
    \/ SingleShot
    \/ on_media_end
    \/ \E p \in Files : RemoveFile(p)
    \/ \E p \in Files : CreateFile(p)
    \/ \E route \in Routes : \E body \in BodiesOf(route) : Request(route, body)

Spec == Init /\ [][Next]_vars

TypeOK ==
    /\ mainpc \in {"imported", "start", "failed", "constructed", "serving", "running", "quitting", "exited"}
    /\ fs \subseteq Files
    /\ Len(queue) <= MaxQueue
    /\ pending \in 0..MaxPending
    /\ current_player # None => current_player.mediaplayer \in States

\* ================================================================ claims
\* shorthands over the player object (meaningful once it exists)
Running == mainpc = "running"
\* the default video is the current video, flagged as such, and playing
DefaultPlaying ==
    /\ current_player # None
    /\ current_player.video_path = current_player.default_video
    /\ current_player.is_default_video
    /\ current_player.mediaplayer = "Playing"
\* the current video path and the is_default_video flag stay as they are
SameVideo ==
    /\ current_player'.video_path = current_player.video_path
    /\ current_player'.is_default_video = current_player.is_default_video
\* handle_media_end runs, from the poll timer or a single-shot timer, on a
\* player that has reached the end of its media
EndHandled ==
    /\ Running
    /\ current_player.mediaplayer = "Ended"
    /\ (check_playback_status \/ SingleShot)
\* one HTTP request is handled
HttpStep == \E route \in Routes : \E body \in BodiesOf(route) : Request(route, body)
\* one step of the main thread
MainThreadStep ==
    \/ MainInit
    \/ vlcApp
    \/ \E sig \in Signals : Dispatch(sig)
    \/ sys_exit
    \/ check_playback_status
    \/ SingleShot

\* ---- C1
\* C1 as stated: whenever the end handler runs after a non-default video has
\* finished, the default video is then the current video and is playing.
C1_Original ==
    [][(EndHandled /\ ~current_player.is_default_video) => DefaultPlaying']_vars

\* C1 (amended): whenever the end handler runs after a non-default video has
\* finished and the default video file exists at that moment, the default
\* video is then the current video and is playing; the step is a timer
\* callback of the main thread, no HTTP request is involved.
C1_Amended ==
    [][(/\ EndHandled
        /\ ~current_player.is_default_video
        /\ Exists(current_player.default_video, fs))
       => (DefaultPlaying' /\ ~HttpStep)]_vars

C1_Witness ==
    /\ Running
    /\ last.op = "handle_media_end: non-default finished"
    /\ last.payload = "True"
    /\ DefaultPlaying

\* ---- C2
\* C2: whenever the end handler runs after the default video has finished
\* (is_default_video is true) and the default video file exists, the player
\* plays the default video again and the current path and flag are unchanged.
C2_Claim ==
    [][(/\ EndHandled
        /\ current_player.is_default_video
        /\ Exists(current_player.default_video, fs))
       => (DefaultPlaying' /\ SameVideo)]_vars

\* ---- C3
\* a POST /play whose body names a path that does not exist
PlayMissing(p) ==
    /\ ~Exists(p, fs)
    /\ Request("play", Body("dict", {"video_path"}, 0, p))

\* C3 as stated: every POST /play with a nonexistent video_path is answered
\* 404, enqueues nothing and leaves the player as it was.
C3_Original ==
    [][\A p \in RequestPaths :
         PlayMissing(p) =>
            /\ last'.status = 404
            /\ queue' = queue
            /\ current_player' = current_player]_vars

\* C3 (amended): with an initialized player, every POST /play with a
\* nonexistent video_path is answered 404 with an error payload, enqueues
\* nothing and leaves the player (path, flag, playing state) as it was.
C3_Amended ==
    [][\A p \in RequestPaths :
         (PlayMissing(p) /\ current_player # None) =>
            /\ last'.status = 404
            /\ last'.payload = "error"
            /\ queue' = queue
            /\ current_player' = current_player]_vars

C3_Witness ==
    /\ Running
    /\ last.by = "http"
    /\ last.status = 404
    /\ current_player.mediaplayer = "Playing"

\* ---- C4
\* C4: a step that changes the player object is never an HTTP request: it is
\* a step of the main thread (or the media running to its end inside VLC);
\* and the queue only changes by the main thread taking its oldest event or
\* by one signal event being appended while the player object stays as it is.
C4_MainThreadOnly ==
    [][/\ current_player' # current_player =>
            /\ ~HttpStep
            /\ MainThreadStep \/ on_media_end
       /\ queue' # queue =>
            \/ queue # <<>> /\ queue' = Tail(queue) /\ MainThreadStep
            \/ /\ current_player' = current_player
               /\ \E sig \in Signals : \E arg \in RequestPaths \cup {NoArg} :
                     queue' = Append(queue, [sig |-> sig, arg |-> arg])]_vars

C4_Witness ==
    /\ Running
    /\ last.by = "http"
    /\ last.status = 200
    /\ last.payload = "success"
    /\ queue # <<>>

\* ---- C5
\* C5: while current_player is None every control endpoint answers 500 with
\* an error payload, whatever the body, and enqueues nothing.
C5_Claim ==
    [][\A route \in ControlRoutes : \A body \in BodiesOf(route) :
         (Request(route, body) /\ current_player = None) =>
            /\ last'.status = 500
            /\ last'.payload = "error"
            /\ queue' = queue]_vars

\* ---- C6
\* The scheduling the code relies on once app.exec() runs: the event loop
\* keeps delivering posted events, the 500 ms poll timer keeps firing, a
\* video that plays reaches its end, and a loop told to quit returns.  HTTP
\* requests, file changes and the single-shot timers are under no obligation.
Fairness ==
    /\ WF_vars(\E sig \in Signals : Dispatch(sig))
    /\ WF_vars(sys_exit)
    /\ WF_vars(check_playback_status)
    /\ WF_vars(on_media_end)

FairSpec == Init /\ [][Next]_vars /\ Fairness

\* a change-video command has just made an on-demand video the current one
OnDemandCurrent ==
    /\ Running
    /\ last.op = "change_video_signal"
    /\ last.payload = "True"
    /\ ~current_player.is_default_video
\* what no player could recover from: the default file is gone, the media
\* could not be opened, or the process was closed
Hopeless ==
    \/ mainpc \in {"quitting", "exited"}
    \/ ~Exists(DEFAULT_VIDEO, fs)
    \/ current_player # None /\ current_player.mediaplayer = "Error"

\* a command other than stop is waiting in the queue
OtherThanStopPosted ==
    \E i \in 1..Len(queue) : queue[i].sig # "stop_signal"

ListingPath(i) == MAIN_PATH \o <<PyIndex(VIDEOS, i)>>
ValidIds == {i \in Ids : 0 <= i /\ i < Len(VIDEOS)}
\* POST /changeVideo {"video-id": i} is handled while the player exists
ChangeVideoRequest(i) ==
    /\ current_player # None
    /\ Request("changeVideo", Body("dict", {"video-id"}, i, NoArg))
\* the request is answered 200 and, with the signals connected, posts the
\* change to the listing's entry i
ChangeVideoAccepted(i) ==
    /\ last'.status = 200
    /\ last'.payload = "success"
    /\ Connected =>
         queue' = Append(queue, [sig |-> "change_video_signal", arg |-> ListingPath(i)])
\* the main thread processes a change to entry i of the listing
ChangeVideoProcessed(i) ==
    /\ Dispatch("change_video_signal")
    /\ Head(queue).arg = ListingPath(i)
\* entry i is the current video and plays; the flag tells whether it is the default
NowPlaying(i) ==
    /\ current_player.video_path = ListingPath(i)
    /\ current_player.mediaplayer = "Playing"
    /\ current_player.is_default_video = (ListingPath(i) = current_player.default_video)

\* C7 as stated: for every valid index i the request is answered 200, and
\* once the main thread processes the command entry i is the current video,
\* playing, flagged default exactly when it is the default video (granting
\* it the entries of the listing that are directories).
C7_Original ==
    [][\A i \in ValidIds :
         /\ ChangeVideoRequest(i) => ChangeVideoAccepted(i)
         /\ (ChangeVideoProcessed(i) /\ ListingPath(i) \notin Directories)
            => NowPlaying(i)']_vars

\* C7 (amended): for every valid index i the request is answered 200, and
\* once the main thread processes the command, provided entry i is a video
\* file that exists at that moment, entry i is the current video, playing,
\* flagged default exactly when it is the default video.
C7_Amended ==
    [][\A i \in ValidIds :
         /\ ChangeVideoRequest(i) => ChangeVideoAccepted(i)
         /\ (ChangeVideoProcessed(i) /\ ListingPath(i) \in fs) => NowPlaying(i)']_vars

C7_Witness ==
    /\ Running
    /\ last.op = "change_video_signal"
    /\ last.payload = "True"
    /\ NowPlaying(0)
    /\ ~current_player.is_default_video

\* ---- C8
\* C8: processing a pause command pauses a playing player and sets a paused
\* player playing again, so a second pause right after a first one that
\* paused returns to playing; the current path and flag never change.
C8_PauseToggles ==
    [][Dispatch("pause_signal") =>
         /\ current_player.mediaplayer = "Playing" => current_player'.mediaplayer = "Paused"
         /\ current_player.mediaplayer = "Paused" => current_player'.mediaplayer = "Playing"
         /\ (last.op = "pause_signal" /\ last.payload = "True"
             /\ current_player.mediaplayer = "Paused")
            => current_player'.mediaplayer = "Playing"
         /\ SameVideo]_vars

\* a pause command has just set a player that was not playing to playing
C8_Witness ==
    /\ Running
    /\ last.op = "pause_signal"
    /\ last.payload = "False"
    /\ current_player.mediaplayer = "Playing"

\* ---- C9
\* C9: after a stop command is processed the player is neither playing nor
\* paused, whatever it was before, and the current path and flag are unchanged.
C9_Claim ==
    [][Dispatch("stop_signal") =>
         /\ current_player'.mediaplayer \notin {"Playing", "Paused"}
         /\ SameVideo]_vars

\* ---- C10
\* POST /resume, or POST /play with a body that names no video_path, while
\* the player exists
ResumeRequest ==
    /\ current_player # None
    /\ \/ Request("resume", Body("invalid", {}, 0, NoArg))
       \/ Request("play", Body("dict", {}, 0, NoArg))
       \/ Request("play", Body("invalid", {}, 0, NoArg))
ResumeAccepted ==
    /\ last'.status = 200
    /\ last'.payload = "success"
    /\ Connected => queue' = Append(queue, [sig |-> "play_signal", arg |-> NoArg])

\* C10 as stated: both requests post a play command, and after it is
\* processed the player is playing with the same path and flag, whatever
\* state it was in.
C10_Original ==
    [][/\ ResumeRequest => ResumeAccepted
       /\ Dispatch("play_signal") =>
            /\ current_player'.mediaplayer = "Playing"
            /\ SameVideo]_vars

\* C10 (amended): both requests post a play command, and after it is
\* processed the path and flag are what they were and, provided the current
\* video is a file that exists at that moment, the player is playing,
\* whatever state it was in.
C10_Amended ==
    [][/\ ResumeRequest => ResumeAccepted
       /\ Dispatch("play_signal") =>
            /\ SameVideo
            /\ current_player.video_path \in fs => current_player'.mediaplayer = "Playing"]_vars

C10_Witness ==
    /\ Running
    /\ last.op = "play_signal"
    /\ current_player.mediaplayer = "Playing"
    /\ ~current_player.is_default_video

\* ---- C11
\* the command at the head of the queue is the one whose HTTP answer, a
\* success response, is the last thing that happened
AnsweredHead ==
    /\ Len(queue) = 1
    /\ last.by = "http"
    /\ last.status = 200
    /\ last.payload = "success"

\* C11: a change-video command that fails when the main thread executes it
\* (the video to switch to is missing) was not answered with a success
\* response, and the main thread goes on as before with the next commands.
C11_Claim ==
    [][(Dispatch("change_video_signal") /\ last'.payload = "False")
       => (~AnsweredHead /\ mainpc' = mainpc /\ queue' = Tail(queue))]_vars

\* ---- C12
\* the main thread has processed a close command
Closed == mainpc \in {"quitting", "exited"}

\* C12: processing a close command leaves the player not playing, the window
\* closed and the event loop told to quit; and once a close command has been
\* processed no step changes the player object again.
C12_Claim ==
    [][/\ Dispatch("close_signal") =>
            /\ ~is_playing(current_player'.mediaplayer)
            /\ current_player'.video_frame = "closed"
            /\ Closed'
       /\ Closed => current_player' = current_player]_vars

\* ---- C13
\* C13: every GET /test is answered 200 "API is running", whether or not the
\* player exists and whatever it is doing, and it enqueues nothing and
\* leaves the player object as it is.
C13_TestAlways200 ==
    [][Request("test", Body("invalid", {}, 0, NoArg)) =>
         /\ last'.status = 200
         /\ last'.payload = "running"
         /\ queue' = queue
         /\ current_player' = current_player]_vars

\* GET /test was just answered 200 although no player exists
C13_Witness ==
    /\ current_player = None
    /\ last.by = "http"
    /\ last.status = 200
    /\ last.payload = "running"

\* ---- C14
\* the last thing that happened: a change-video command made an on-demand
\* video current, and that video is playing
OnDemandStarted ==
    /\ OnDemandCurrent
    /\ current_player.mediaplayer = "Playing"

\* C14: a delayed end handler (single-shot timer or poll) that runs after a
\* change-video command has started an on-demand video, while that video is
\* playing, leaves it the current video and playing: a timer armed by an
\* earlier end does not switch to the default video.
C14_Claim ==
    [][(OnDemandStarted /\ (SingleShot \/ check_playback_status))
       => /\ current_player'.video_path = current_player.video_path
          /\ current_player'.mediaplayer = "Playing"]_vars

\* ---- C15
\* C15: once the player exists, is_default_video is true exactly when the
\* current video path is the default video path.
C15_Claim ==
    current_player # None =>
        (current_player.is_default_video
            <=> current_player.video_path = current_player.default_video)

\* ---- C16
\* the last thing that happened: handle_media_end switched to the default
\* video or restarted it, and the video it started is still playing
JustRestarted ==
    /\ Running
    /\ last.by = "main"
    /\ last.op \in {"handle_media_end: non-default finished",
                    "handle_media_end: default finished"}
    /\ last.payload = "True"
    /\ current_player.mediaplayer = "Playing"

\* C16: once handle_media_end has handled an end and the video it started
\* is still playing, handle_media_end does not run again: no single-shot
\* timer fires for the end that was already handled.
C16_Claim == [][JustRestarted => ~SingleShot]_vars

\* ---- C17
\* the main thread executes the oldest queued command and removes exactly it
ExecutesOldest ==
    /\ queue # <<>>
    /\ queue' = Tail(queue)
    /\ last'.by = "main"
    /\ last'.op = Head(queue).sig
    /\ \E r \in Slot(Head(queue), current_player, fs) : current_player' = r.self
\* an HTTP handler puts one command behind those that wait
EnqueuesLast ==
    /\ last'.by = "http"
    /\ \E sig \in Signals : \E arg \in RequestPaths \cup {NoArg} :
          queue' = Append(queue, [sig |-> sig, arg |-> arg])
\* commands leave the queue one at a time, oldest first, by being executed,
\* and enter it at the end (whichever handler thread posts first is first)
ExecutedInOrder == [][queue' # queue => (ExecutesOldest \/ EnqueuesLast)]_vars
\* the main thread executes commands again and again
KeepsExecuting == []<><<ExecutesOldest>>_vars

\* C17 as stated: commands are executed once each in the order they were
\* enqueued, and every enqueued command is eventually executed (a queue that
\* stays non-empty for ever is executed from again and again).
C17_Original ==
    /\ ExecutedInOrder
    /\ <>[](queue # <<>>) => KeepsExecuting

\* C17 (amended): commands are executed once each in the order they were
\* enqueued, and as long as the event loop runs (no close command has been
\* processed) every enqueued command is eventually executed.
C17_Amended ==
    /\ ExecutedInOrder
    /\ <>[](queue # <<>> /\ Running) => KeepsExecuting

\* of two commands that waited, the older one has been executed and the
\* younger one is next
C17_Witness ==
    /\ Running
    /\ last.by = "main"
    /\ last.op = "pause_signal"
    /\ queue = <<[sig |-> "stop_signal", arg |-> NoArg]>>

\* ---- C18
\* C18: a change-video command whose path does not exist when the main
\* thread processes it is rejected (the slot returns False) and leaves the
\* player object, with its path, flag and playing state, as it was.
C18_MissingRejected ==
    [][(Dispatch("change_video_signal") /\ Head(queue).arg \notin fs \cup Directories)
       => /\ last'.payload = "False"
          /\ current_player' = current_player]_vars

\* a change-video command was just rejected while a video plays
C18_Witness ==
    /\ Running
    /\ last.op = "change_video_signal"
    /\ last.payload = "False"
    /\ current_player.mediaplayer = "Playing"

====
